---------------------------- MODULE Spec2Model ----------------------------
(***************************************************************************)
(* Model of src/src/Combinations.h (namespace combinations): the Counter,  *)
(* the Generator, the Enumerator and the Lexor.                            *)
(*                                                                         *)
(* One object is under observation in a behaviour (obj); the other         *)
(* objects stay in their constructed state.  size_t is modelled as an      *)
(* unsigned integer of W bits, all arithmetic on it is taken modulo 2^W.   *)
(* The machine is part of the state: the frames its call stack has room    *)
(* for and the elements its allocator can provide.                         *)
(***************************************************************************)
EXTENDS Integers, Sequences, FiniteSets, TLC

VARIABLES
    obj,          \* which object the caller constructed and drives
    set,          \* the base sequence _set (borrowed, never written)
    ndebug,       \* TRUE when the build defines NDEBUG (assert() is a no-op)
    stack,        \* the frames of a recursion the call stack has room for
    heap,         \* the bytes the allocator can have handed out at a time
    counts,       \* Counter::_counts, the memo of the Counter instance
    cntRet,       \* outcome of the last Counter::count call
    combinations, \* Generator::_combinations
    gen_m,        \* Generator::_m
    gen_cap,      \* _combinations.capacity(), the elements its storage holds
    genRet,       \* outcome of the last Generator::generate call (before:
                  \* the size of _combinations when it was called)
    enum_m,       \* Enumerator::_m
    curSet,       \* Enumerator::_curSet
    idxStack,     \* Enumerator::_idxStack
    stateStack,   \* Enumerator::_stateStack (position p is stateStack[p+1])
    enumRet,      \* outcome of the last Enumerator::first / next call
    enumOut,      \* the values returned since the last first(), in order
    lex_m,        \* Lexor::_m
    lexCounts,    \* the memo of Lexor::_counter
    lexRet        \* outcome of the last call on the Lexor (op: setM or get)

vars == <<obj, set, ndebug, stack, heap, counts, cntRet,
          combinations, gen_m, gen_cap, genRet,
          enum_m, curSet, idxStack, stateStack, enumRet, enumOut,
          lex_m, lexCounts, lexRet>>

machineVars == <<ndebug, stack, heap>>
counterVars == <<counts, cntRet>>
generatorVars == <<combinations, gen_m, gen_cap, genRet>>
enumeratorVars == <<enum_m, curSet, idxStack, stateStack, enumRet, enumOut>>
lexorVars == <<lex_m, lexCounts, lexRet>>

---------------------------------------------------------------------------
(* Bounds of the model. *)

\* Width in bits of the model's size_t.
W == 4

\* Largest length of a base sequence.
MaxN == 6

\* Largest n passed to Counter::count on the observed Counter.
MaxCountN == 7

\* How many calls of next() that return the empty sequence are followed.
MaxEmpty == 4

Word == 2^W

\* Largest subset size passed to an operation (one more than MaxN, so that
\* m > n happens for every n).
MaxM == MaxN + 1

\* The frames of a small call stack: recursions of the code on valid
\* arguments are deeper than this.
StackSmall == 3

\* The bytes of a small heap: it has room for a Counter without memo
\* entries and one element of _combinations, and no more.
HeapSmall == 160

\* The bytes of a heap that has room for a Counter and the storage of a
\* few combinations, but not for every collection generate() builds.
HeapMedium == 280

\* Width in bits of the addresses of the machine, which bounds the size of
\* a vector: every count of W bits is a size a vector can have, as in a
\* build that narrows the Counter's integer alone (in the code's own build
\* size_t and the addresses have 64 bits, and counts from 2^58 on exceed
\* max_size()).
AddressBits == 16

\* The frames of a large call stack.  No machine has room for the about 2^W
\* frames of a recursion whose n has wrapped below zero.
StackFrames == 2^(W-1)

\* The call stacks of the machines the code runs on: the depth a recursion
\* of the code reaches grows with n, and the stack is finite.
StackSizes == {StackSmall, StackFrames}

\* PTRDIFF_MAX of the machine.
PtrdiffMax == 2^(AddressBits - 1) - 1

\* sizeof(std::vector<int>), an element of _combinations: three pointers.
SetBytes == 24

\* sizeof(int), an element of a combination.
IntBytes == 4

\* The bytes of the buckets of a Counter's _counts as constructed:
\* _counts(16) makes a table of seventeen buckets, a pointer each.
BucketBytes == 136

\* The bytes of a node of _counts: a link, the pair of two size_t, the
\* count and the cached hash.
NodeBytes == 40

\* The bytes std::overflow_error allocates for its copy of the message
\* "Combination size overflowed.".
OverflowMessageBytes == 53

\* The bytes the std::length_error of reserve() allocates for its message.
LengthMessageBytes == 40

\* std::vector::max_size() of a vector whose elements have `bytes` bytes:
\* PTRDIFF_MAX divided by the size of an element.
MaxSize(bytes) == PtrdiffMax \div bytes

\* The heaps of the machines the code runs on.
HeapSizes == {HeapSmall, HeapMedium, PtrdiffMax}

\* Values an out-of-bounds read of the base sequence may deliver.
Garbage == {-1, -2}

---------------------------------------------------------------------------
(* size_t arithmetic *)

Min(a, b) == IF a < b THEN a ELSE b

\* a - b in size_t
Sub(a, b) == (a - b) % Word

\* a + b in size_t
Add(a, b) == (a + b) % Word

\* a | b
RECURSIVE BitOr(_, _)
BitOr(a, b) ==
    IF a = 0 THEN b
    ELSE IF b = 0 THEN a
    ELSE (IF a % 2 = 1 \/ b % 2 = 1 THEN 1 ELSE 0) + 2 * BitOr(a \div 2, b \div 2)

\* Overflowed with <= for <: a sum whose addends share no bit is reported.
OverflowedOrEqual(cnt, cnt0, cnt1) == cnt <= BitOr(cnt0, cnt1)

\* The test of Counter::countRec for an overflowed sum.
Overflowed(cnt, cnt0, cnt1) == cnt < BitOr(cnt0, cnt1)

---------------------------------------------------------------------------
(* Counter *)

EmptyMemo == << >>

HasKey(memo, n, m) == <<n, m>> \in DOMAIN memo

\* Store that drops the entries the memo held.
StoreAlone(memo, n, m, cnt) == [k \in {<<n, m>>} |-> cnt]

\* _counts[pair] = cnt (line 209).
Store(memo, n, m, cnt) == [k \in (DOMAIN memo) \cup {<<n, m>>} |->
                              IF k = <<n, m>> THEN cnt ELSE memo[k]]

\* Normalize with std::max for std::min.
NormalizeMax(n, m) == IF m < Sub(n, m) THEN Sub(n, m) ELSE m

\* The normalisation m = std::min(m, n-m), n-m in size_t.
Normalize(n, m) == Min(m, Sub(n, m))

\* Counter::countRec(n, m) on the memo `memo`, as frame number d of the
\* recursion in progress.  The result is the outcome (st: "ok" with the
\* value val, "overflow" for the thrown std::overflow_error, "crash" for a
\* call the stack has no room for, which ends the process) and the memo as
\* the call leaves it.
RECURSIVE countRec(_, _, _, _)
countRec(n, m0, memo, d) ==
    LET m == Normalize(n, m0) IN
    IF d > stack THEN [st |-> "crash", val |-> 0, memo |-> memo]
    ELSE IF m = 0 THEN [st |-> "ok", val |-> 1, memo |-> memo]
    ELSE IF m = 1 THEN [st |-> "ok", val |-> n, memo |-> memo]
    ELSE IF HasKey(memo, n, m) THEN [st |-> "ok", val |-> memo[<<n, m>>], memo |-> memo]
    ELSE LET r0 == countRec(Sub(n, 1), m, memo, d + 1) IN
         IF r0.st # "ok" THEN r0
         ELSE LET r1 == countRec(Sub(n, 1), m - 1, r0.memo, d + 1) IN
              IF r1.st # "ok" THEN r1
              ELSE LET cnt == Add(r0.val, r1.val) IN
                   IF Overflowed(cnt, r0.val, r1.val)
                   THEN [st |-> "overflow", val |-> 0, memo |-> r1.memo]
                   ELSE [st |-> "ok", val |-> cnt, memo |-> Store(r1.memo, n, m, cnt)]

\* Counter::count(n, m) on the memo `memo`, called from outside a recursion.
count(n, m, memo) == countRec(n, m, memo, 1)

\* FreshCount that returns where the count throws the overflow error.
FreshCountNoThrow(n, m) ==
    LET r == count(n, m, EmptyMemo)
    IN IF r.st = "overflow" THEN [r EXCEPT !.st = "ok"] ELSE r

\* Counter().count(n, m): a fresh Counter, discarded after the call.
FreshCount(n, m) == count(n, m, EmptyMemo)

---------------------------------------------------------------------------
(* Base sequences *)

\* The test bench's set: std::iota(set.begin(), set.end(), 0).
Iota(n) == [i \in 1..n |-> i - 1]

\* A base sequence whose values are not its positions.
Odds(n) == [i \in 1..n |-> 2 * (n - i) + 1]

BaseSets == {Iota(n) : n \in 0..MaxN} \cup {Odds(n) : n \in 0..MaxN}

\* The outcomes of undefined behaviour that a call draws: segv, whether an
\* out-of-bounds read of the base sequence ends the process, and g, the
\* value it delivers otherwise.
Outcomes == [segv : BOOLEAN, g : Garbage]

\* An outcome to try a call with: a call that reads no position out of
\* bounds (oob = FALSE in its result) does the same under every outcome.
AnyOutcome == [segv |-> FALSE, g |-> -1]

\* _set[idx] when idx is a position of the sequence, else what the
\* out-of-bounds read delivers.
SetAt(s, idx, u) == IF idx < Len(s) THEN s[idx + 1] ELSE u.g

\* clear that keeps the elements.
clearKeeps(v) == v

\* std::vector::clear(), as called in lines 223, 224, 226 and 351.
clear(v) == << >>

\* std::vector::resize(k, val): cut to k elements, or filled up with val.
resize(v, k, val) ==
    IF Len(v) >= k THEN SubSeq(v, 1, k)
    ELSE v \o [j \in 1..(k - Len(v)) |-> val]

---------------------------------------------------------------------------
(* Generator *)

\* generateSkips with <= for <.
generateSkipsOrEqual(s, m, curIdx, cur) == Add(curIdx, Sub(m, Len(cur))) <= Len(s)

\* The test of generateRec (line 370) for taking the branch that leaves
\* position curIdx out: enough positions remain to fill the combination.
generateSkips(s, m, curIdx, cur) == Add(curIdx, Sub(m, Len(cur))) < Len(s)

\* What a call of generate has done so far: combs is _combinations, cap its
\* capacity(), m is _m, used the bytes the call holds on the heap (the
\* storage of _combinations, of its elements and of curSet); oob, whether a
\* position >= s.size() was read; st, "ok", or an exception that ended the
\* call ("overflow", "length_error", "bad_alloc"), "crash" (the stack had
\* no room for a call, or an out-of-bounds read ended the process) or
\* "abort" (a failed assert).
GenAcc(combs, cap, m, used, st, oob) ==
    [combs |-> combs, cap |-> cap, m |-> m, used |-> used, st |-> st, oob |-> oob]

\* The capacity std::vector::push_back grows a full vector to.
Grown(cap) == IF cap = 0 THEN 1 ELSE 2 * cap

\* _combinations.push_back(curSet), line 375: a full vector first allocates
\* its grown storage, then the copy of curSet allocates its elements in it,
\* and only then the old storage is freed: the old storage, the grown one
\* and the copy are held at once.  An allocation the heap cannot provide
\* throws std::bad_alloc and leaves the vector as it was.  (The heap is no
\* larger than PTRDIFF_MAX bytes, so it runs out before max_size() is
\* reached.)
pushBack(acc, cur) ==
    LET full == Len(acc.combs) = acc.cap
        grown == IF full THEN Grown(acc.cap) ELSE acc.cap
        peak == IF full THEN acc.used + grown * SetBytes ELSE acc.used
        kept == acc.used + (grown - acc.cap) * SetBytes
    IN IF peak + Len(cur) * IntBytes > heap
       THEN [acc EXCEPT !.st = "bad_alloc"]
       ELSE [acc EXCEPT !.combs = Append(@, cur),
                        !.cap = grown,
                        !.used = kept + Len(cur) * IntBytes]

\* Generator<T>::generateRec(curIdx, curSet) on the base sequence s with
\* _m = m, as frame number d of the recursion.  acc is what the call of
\* generate has done so far.  curSet has room for m elements (line 355), so
\* its push_back of line 367 allocates nothing.
RECURSIVE generateRec(_, _, _, _, _, _, _, _)
generateRec(s, m, nd, u, curIdx, cur, acc, d) ==
    IF acc.st # "ok" THEN acc
    ELSE IF d > stack THEN [acc EXCEPT !.st = "crash"]
    ELSE IF Len(cur) < m
    THEN IF curIdx >= Len(s) /\ u.segv
         THEN [acc EXCEPT !.st = "crash", !.oob = TRUE]
         ELSE LET inc == generateRec(s, m, nd, u, Add(curIdx, 1),
                                     Append(cur, SetAt(s, curIdx, u)),
                                     [acc EXCEPT !.oob = @ \/ curIdx >= Len(s)],
                                     d + 1)
              IN IF generateSkips(s, m, curIdx, cur)
                 THEN generateRec(s, m, nd, u, Add(curIdx, 1), cur, inc, d + 1)
                 ELSE inc
    ELSE IF ~nd /\ Len(cur) # m
         THEN [acc EXCEPT !.st = "abort"]
         ELSE pushBack(acc, cur)

\* std::vector::reserve(k) (lines 352 and 355) on an empty vector of
\* capacity cap whose elements have `bytes` bytes, with `used` bytes of the
\* heap held (the vector's storage included): st is "length_error" for the
\* std::length_error thrown when k exceeds max_size(), "bad_alloc" for the
\* std::bad_alloc of an allocation the heap cannot provide (the message of
\* the length_error, or the new storage: the old storage is freed after
\* the new one is allocated), else "ok"; cap and used are the capacity and
\* the bytes held after the call.
reserve(cap, k, bytes, used) ==
    IF k > MaxSize(bytes)
    THEN [st |-> IF used + LengthMessageBytes > heap THEN "bad_alloc"
                 ELSE "length_error",
          cap |-> cap, used |-> used]
    ELSE IF k <= cap THEN [st |-> "ok", cap |-> cap, used |-> used]
    ELSE IF used + k * bytes > heap THEN [st |-> "bad_alloc", cap |-> cap, used |-> used]
    ELSE [st |-> "ok", cap |-> k, used |-> used + (k - cap) * bytes]

\* The bytes the temporary Counter() of line 352 holds with the memo
\* `memo`: its buckets and one node for each entry.  (Seventeen buckets
\* hold up to seventeen entries before the table is rebuilt; a count of the
\* widths modelled stores fewer.)
MemoBytes(memo) == BucketBytes + Cardinality(DOMAIN memo) * NodeBytes

\* Counter().count(n, m) of line 352 with `held` bytes of the heap in use:
\* the result of the count, or "bad_alloc" when the heap cannot provide the
\* buckets of the Counter, a node of its memo, or the message of the
\* overflow error (which is built while the memo is held).  The memo only
\* grows, so an allocation has failed exactly when the bytes the count has
\* come to need exceed the heap.
TempCount(n, m, held) ==
    LET r == FreshCount(n, m)
        msg == IF r.st = "overflow" THEN OverflowMessageBytes ELSE 0
    IN IF held + MemoBytes(r.memo) + msg > heap
       THEN [r EXCEPT !.st = "bad_alloc"]
       ELSE r

\* Generator<T>::generate(m) on a Generator whose _combinations is combs,
\* with the capacity cap, and whose _m is m_old: the new _combinations, its
\* capacity, the new _m and the outcome of the call.  clear() frees the
\* elements and keeps the storage.  The temporary Counter lives to the end
\* of the statement of line 352, so the reserve of that line allocates
\* while the Counter's buckets and memo are held.  A throw of
\* Counter().count or of the reserve of line 352 leaves _m as it was; a
\* throw of the reserve of line 355 or of line 375 comes after the
\* assignment of _m, and the latter leaves the combinations appended so
\* far.
generate(s, combs, cap, m_old, m, nd, u) ==
    LET cleared == clear(combs)
        held == cap * SetBytes
        cnt == TempCount(Len(s), m, held)
        temp == MemoBytes(cnt.memo)
    IN IF cnt.st # "ok"
       THEN GenAcc(cleared, cap, m_old, held, cnt.st, FALSE)
       ELSE LET outer == reserve(cap, cnt.val, SetBytes, held + temp) IN
            IF outer.st # "ok"
            THEN GenAcc(cleared, cap, m_old, held, outer.st, FALSE)
            ELSE LET inner == reserve(0, m, IntBytes, outer.used - temp) IN
                 IF inner.st # "ok"
                 THEN GenAcc(cleared, outer.cap, m, outer.used, inner.st, FALSE)
                 ELSE generateRec(s, m, nd, u, 0, << >>,
                                  GenAcc(cleared, outer.cap, m, inner.used, "ok", FALSE),
                                  1)

---------------------------------------------------------------------------
(* Enumerator *)

Back(v) == v[Len(v)]

PopBack(v) == SubSeq(v, 1, Len(v) - 1)

\* The object an Enumerator is: e.m is _m, e.curSet is _curSet, e.idxStack
\* is _idxStack, e.stateStack is _stateStack.
EnumObj(m, cs, is, ss) == [m |-> m, curSet |-> cs, idxStack |-> is, stateStack |-> ss]

\* What a call of first() or next() leaves: the object e, the returned
\* sequence val, the return statement taken (via: "first0" is line 232,
\* "yield" is line 254, "exhausted" is line 273), whether a position >=
\* _set.size() was read (oob), and st: "ok", "crash" (an out-of-bounds read
\* ended the process), "abort" (a failed assert) or "ub" (an access outside
\* _stateStack, or pop_back() of an empty _curSet: the call's effect is
\* undefined).
EnumResult(e, val, via, st, oob) ==
    [e |-> e, val |-> val, via |-> via, st |-> st, oob |-> oob]

\* nextExit that seeds the position stack again, as first() does.
nextExitRestart(nd, e, oob) ==
    EnumResult([e EXCEPT !.idxStack = <<0>>], e.curSet, "exhausted", "ok", oob)

\* The exit of next() once its loop has ended: lines 272-273.
nextExit(nd, e, oob) ==
    IF ~nd /\ Len(e.curSet) # 0
    THEN EnumResult(e, << >>, "exhausted", "abort", oob)
    ELSE EnumResult(e, e.curSet, "exhausted", "ok", oob)

\* nextState0 whose return keeps the position on the stack.
nextState0NoPop(s, u, e, curIdx, oob) ==
    IF Len(e.curSet) < e.m
    THEN [ret |-> FALSE,
          res |-> EnumResult([e EXCEPT !.curSet = Append(@, SetAt(s, curIdx, u)),
                                       !.idxStack = Append(@, Add(curIdx, 1)),
                                       !.stateStack[curIdx + 1] = 1],
                             << >>, "none", "ok", oob \/ curIdx >= Len(s))]
    ELSE [ret |-> TRUE, res |-> EnumResult(e, e.curSet, "yield", "ok", oob)]

\* The branch of next() for a position in state 0: lines 247-255.  It either
\* returns (ret = TRUE) or goes round the loop again.
nextState0(s, u, e, curIdx, oob) ==
    IF Len(e.curSet) < e.m
    THEN IF curIdx >= Len(s) /\ u.segv
         THEN [ret |-> TRUE, res |-> EnumResult(e, << >>, "none", "crash", TRUE)]
         ELSE [ret |-> FALSE,
               res |-> EnumResult([e EXCEPT !.curSet = Append(@, SetAt(s, curIdx, u)),
                                            !.idxStack = Append(@, Add(curIdx, 1)),
                                            !.stateStack[curIdx + 1] = 1],
                                  << >>, "none", "ok", oob \/ curIdx >= Len(s))]
    ELSE [ret |-> TRUE,
          res |-> EnumResult([e EXCEPT !.idxStack = PopBack(@)],
                             e.curSet, "yield", "ok", oob)]

\* nextSkips with <= for <.
nextSkipsOrEqual(s, m, curIdx, cs) == Add(curIdx, Sub(m, Len(cs))) <= Len(s)

\* The test of next() (line 258) for taking the branch that leaves position
\* curIdx out; cs is _curSet.
nextSkips(s, m, curIdx, cs) == Add(curIdx, Sub(m, Len(cs))) < Len(s)

\* The branch of next() for a position in state 1: lines 257-264.
nextState1(s, e, curIdx, oob) ==
    IF Len(e.curSet) = 0
    THEN [ret |-> TRUE, res |-> EnumResult(e, << >>, "none", "ub", oob)]
    ELSE LET cs == PopBack(e.curSet) IN
         IF nextSkips(s, e.m, curIdx, cs)
         THEN [ret |-> FALSE,
               res |-> EnumResult([e EXCEPT !.curSet = cs,
                                            !.idxStack = Append(@, Add(curIdx, 1)),
                                            !.stateStack[curIdx + 1] = 2],
                                  << >>, "none", "ok", oob)]
         ELSE [ret |-> FALSE,
               res |-> EnumResult([e EXCEPT !.curSet = cs,
                                            !.idxStack = PopBack(@),
                                            !.stateStack[curIdx + 1] = 0],
                                  << >>, "none", "ok", oob)]

\* nextState2 that leaves the visit state of the popped position at 2.
nextState2NoReset(nd, e, curIdx, state, oob) ==
    IF ~nd /\ state # 2
    THEN [ret |-> TRUE, res |-> EnumResult(e, << >>, "none", "abort", oob)]
    ELSE [ret |-> FALSE,
          res |-> EnumResult([e EXCEPT !.idxStack = PopBack(@)],
                             << >>, "none", "ok", oob)]

\* The branch of next() for a position in any other state: lines 266-268.
nextState2(nd, e, curIdx, state, oob) ==
    IF ~nd /\ state # 2
    THEN [ret |-> TRUE, res |-> EnumResult(e, << >>, "none", "abort", oob)]
    ELSE [ret |-> FALSE,
          res |-> EnumResult([e EXCEPT !.idxStack = PopBack(@),
                                       !.stateStack[curIdx + 1] = 0],
                             << >>, "none", "ok", oob)]

\* One round of the while loop of next(): lines 244-269.
nextRound(s, nd, u, e, oob) ==
    LET curIdx == Back(e.idxStack) IN
    IF curIdx >= Len(e.stateStack)
    THEN [ret |-> TRUE, res |-> EnumResult(e, << >>, "none", "ub", oob)]
    ELSE LET state == e.stateStack[curIdx + 1] IN
         IF state = 0 THEN nextState0(s, u, e, curIdx, oob)
         ELSE IF state = 1 THEN nextState1(s, e, curIdx, oob)
         ELSE nextState2(nd, e, curIdx, state, oob)

\* Enumerator<T>::next() on the object e.
RECURSIVE next(_, _, _, _, _)
next(s, nd, u, e, oob) ==
    IF Len(e.idxStack) = 0
    THEN nextExit(nd, e, oob)
    ELSE CHOOSE res \in {IF round.ret THEN round.res
                          ELSE next(s, nd, u, round.res.e, round.res.oob) :
                          round \in {nextRound(s, nd, u, e, oob)}} : TRUE

\* firstReset that sizes _stateStack to _set.size() entries.
firstResetShort(s, e, m) ==
    EnumObj(m, clear(e.curSet), Append(clear(e.idxStack), 0),
            resize(clear(e.stateStack), Len(s), 0))

\* firstReset without _stateStack.clear(): resize() keeps the old entries.
firstResetNoClear(s, e, m) ==
    EnumObj(m, clear(e.curSet), Append(clear(e.idxStack), 0),
            resize(e.stateStack, Add(Len(s), 1), 0))

\* The object e as first(m) resets it: lines 222-227.
firstReset(s, e, m) ==
    EnumObj(m, clear(e.curSet), Append(clear(e.idxStack), 0),
            resize(clear(e.stateStack), Add(Len(s), 1), 0))

\* Enumerator<T>::first(m) on the object e0.
first(s, nd, u, e0, m) ==
    LET e == firstReset(s, e0, m) IN
    IF m # 0 THEN next(s, nd, u, e, FALSE)
    ELSE EnumResult(e, e.curSet, "first0", "ok", FALSE)

\* The object as the constructor leaves it: line 61.
NewEnumerator == EnumObj(0, << >>, << >>, << >>)

---------------------------------------------------------------------------
(* Lexor *)

\* What a call of Lexor::get has done so far: r, the result vector; memo, the
\* memo of _counter; oob, whether a position >= _n was read; st, "ok",
\* "overflow" (std::overflow_error thrown by _counter), "crash" (the stack
\* had no room for a call, or an out-of-bounds read ended the process) or
\* "abort".
LexAcc(r, memo, st, oob) == [r |-> r, memo |-> memo, st |-> st, oob |-> oob]

\* The two asserts of the private get: lines 332-333.  With NDEBUG neither
\* is evaluated, so _counter.count(n, m) is not called.  d is the frame
\* number of the get that asserts; the count recurses above it.
lexAsserts(s, nd, n, m, i, nel, acc, d) ==
    IF nd THEN acc
    ELSE IF ~(nel < Len(s)) THEN [acc EXCEPT !.st = "abort"]
    ELSE LET c == countRec(n, m, acc.memo, d + 1) IN
         IF c.st # "ok" THEN [acc EXCEPT !.st = c.st, !.memo = c.memo]
         ELSE IF ~(i < c.val) THEN [acc EXCEPT !.st = "abort", !.memo = c.memo]
         ELSE [acc EXCEPT !.memo = c.memo]

\* lexIncludes with <= for <.
lexIncludesOrEqual(i, elCnt) == i <= elCnt

\* The test of the private get (line 335): the leading position belongs to
\* the i-th combination.
lexIncludes(i, elCnt) == i < elCnt

\* The private Lexor<T>::get(n, m, i, nel, r), lines 325-342, as frame
\* number d of its recursion.
RECURSIVE lexGetRec(_, _, _, _, _, _, _, _, _)
lexGetRec(s, nd, u, n, m, i, nel, acc, d) ==
    IF acc.st # "ok" THEN acc
    ELSE IF d > stack THEN [acc EXCEPT !.st = "crash"]
    ELSE IF ~(m > 0) THEN acc
    ELSE LET a == lexAsserts(s, nd, n, m, i, nel, acc, d) IN
         IF a.st # "ok" THEN a
         ELSE LET elCnt == countRec(Sub(n, 1), Sub(m, 1), a.memo, d + 1) IN
              IF elCnt.st # "ok"
              THEN [a EXCEPT !.st = elCnt.st, !.memo = elCnt.memo]
              ELSE IF lexIncludes(i, elCnt.val)
              THEN IF nel >= Len(s) /\ u.segv
                   THEN [a EXCEPT !.st = "crash", !.memo = elCnt.memo, !.oob = TRUE]
                   ELSE lexGetRec(s, nd, u, Sub(n, 1), Sub(m, 1), i, Add(nel, 1),
                                  LexAcc(Append(a.r, SetAt(s, nel, u)), elCnt.memo,
                                         "ok", a.oob \/ nel >= Len(s)),
                                  d + 1)
              ELSE lexGetRec(s, nd, u, Sub(n, 1), m, Sub(i, elCnt.val), Add(nel, 1),
                             [a EXCEPT !.memo = elCnt.memo], d + 1)

\* lexInRange with <= for <.
lexInRangeOrEqual(i, cnt) == i <= cnt

\* The test of get(i) (line 311): the rank is in range.
lexInRange(i, cnt) == i < cnt

\* Lexor<T>::get(i) on a Lexor over s with _m = m and the memo `memo`.
lexGet(s, nd, u, m, i, memo) ==
    LET c == count(Len(s), m, memo) IN
    IF c.st # "ok" THEN LexAcc(<< >>, c.memo, c.st, FALSE)
    ELSE IF lexInRange(i, c.val)
    THEN lexGetRec(s, nd, u, Len(s), m, i, 0, LexAcc(<< >>, c.memo, "ok", FALSE), 1)
    ELSE LexAcc(<< >>, c.memo, "ok", FALSE)

---------------------------------------------------------------------------
(* The objects, as constructed *)

Objects == {"Counter", "Generator", "Enumerator", "Lexor"}

\* Outcomes after which the process no longer runs, or runs undefined.
Dead == {"crash", "abort", "ub"}

NoCount == [st |-> "none", val |-> 0, n |-> 0, m |-> 0]
NoGenerate == [st |-> "none", m |-> 0, oob |-> FALSE, before |-> 0]
NoEnum == [st |-> "none", val |-> << >>, via |-> "none", oob |-> FALSE,
           started |-> FALSE, midway |-> FALSE]
NoGet == [st |-> "none", op |-> "none", val |-> << >>, i |-> 0, oob |-> FALSE]

\* The state after construction of the object obj, on a machine with some
\* stack and some heap (an Enumerator recurses nowhere, and only the
\* Generator allocates by a count).  A Counter has no base sequence.
\* Generator's constructor leaves _m uninitialized (line 141); Enumerator's
\* sets _m to 0 (line 61); Lexor's takes m (line 101).
Init ==
    /\ obj \in Objects
    /\ set \in (IF obj = "Counter" THEN {<< >>} ELSE BaseSets)
    /\ ndebug \in BOOLEAN
    /\ stack \in (IF obj = "Enumerator" THEN {StackFrames} ELSE StackSizes)
    /\ heap \in (IF obj = "Generator" THEN HeapSizes ELSE {PtrdiffMax})
    /\ counts = EmptyMemo
    /\ cntRet = NoCount
    /\ combinations = << >>
    /\ gen_m \in (IF obj = "Generator" THEN 0..(Word - 1) ELSE {0})
    /\ gen_cap = 0
    /\ genRet = NoGenerate
    /\ enum_m = 0
    /\ curSet = << >>
    /\ idxStack = << >>
    /\ stateStack = << >>
    /\ enumRet = NoEnum
    /\ enumOut = << >>
    /\ lex_m \in (IF obj = "Lexor" THEN 0..MaxM ELSE {0})
    /\ lexCounts = EmptyMemo
    /\ lexRet = NoGet

Running == /\ cntRet.st \notin Dead
           /\ genRet.st \notin Dead
           /\ enumRet.st \notin Dead
           /\ lexRet.st \notin Dead

---------------------------------------------------------------------------
(* Counter's operation *)

\* counter.count(n, m) on the observed Counter.
Count(n, m) ==
    /\ obj = "Counter"
    /\ Running
    /\ \E r \in {count(n, m, counts)} :
         /\ counts' = r.memo
         /\ cntRet' = [st |-> r.st, val |-> r.val, n |-> n, m |-> m]
    /\ UNCHANGED <<obj, set, machineVars, generatorVars, enumeratorVars, lexorVars>>

---------------------------------------------------------------------------
(* Generator's operation *)

\* A call that reads no position out of bounds (oob = FALSE in its result)
\* does the same under every outcome: its result r0 under AnyOutcome
\* stands.  Otherwise the call is taken under each outcome.
GenerateLeaves(m, r) ==
    /\ combinations' = r.combs
    /\ gen_m' = r.m
    /\ gen_cap' = r.cap
    /\ genRet' = [st |-> r.st, m |-> m, oob |-> r.oob, before |-> Len(combinations)]

\* generator.generate(m).
Generate(m) ==
    /\ obj = "Generator"
    /\ Running
    /\ \E r0 \in {generate(set, combinations, gen_cap, gen_m, m, ndebug, AnyOutcome)} :
         IF r0.oob
         THEN \E u \in Outcomes :
                \E r \in {generate(set, combinations, gen_cap, gen_m, m, ndebug, u)} :
                  GenerateLeaves(m, r)
         ELSE GenerateLeaves(m, r0)
    /\ UNCHANGED <<obj, set, machineVars, counterVars, enumeratorVars, lexorVars>>

---------------------------------------------------------------------------
(* Enumerator's operations *)

IsEmpty(v) == Len(v) = 0

NumEmpty(out) == Len(SelectSeq(out, IsEmpty))

TheEnumerator == EnumObj(enum_m, curSet, idxStack, stateStack)

\* The object and the outcome as the call's result r leaves them.  started:
\* first() has been called; midway: the last first() was called with a
\* traversal in progress.
EnumLeaves(r, started, midway) ==
    /\ enum_m' = r.e.m
    /\ curSet' = r.e.curSet
    /\ idxStack' = r.e.idxStack
    /\ stateStack' = r.e.stateStack
    /\ enumRet' = [st |-> r.st, val |-> r.val, via |-> r.via, oob |-> r.oob,
                   started |-> started, midway |-> midway]

FirstLeaves(r) ==
    /\ EnumLeaves(r, TRUE, Len(idxStack) > 0)
    /\ enumOut' = <<r.val>>

\* enumerator.first(m).
EnumFirst(m) ==
    /\ obj = "Enumerator"
    /\ Running
    /\ \E r0 \in {first(set, ndebug, AnyOutcome, TheEnumerator, m)} :
         IF r0.oob
         THEN \E u \in Outcomes :
                \E r \in {first(set, ndebug, u, TheEnumerator, m)} : FirstLeaves(r)
         ELSE FirstLeaves(r0)
    /\ UNCHANGED <<obj, set, machineVars, counterVars, generatorVars, lexorVars>>

NextLeaves(r) ==
    /\ EnumLeaves(r, enumRet.started, enumRet.midway)
    /\ enumOut' = Append(enumOut, r.val)

\* enumerator.next().
EnumNext ==
    /\ obj = "Enumerator"
    /\ Running
    /\ NumEmpty(enumOut) < MaxEmpty
    /\ \E r0 \in {next(set, ndebug, AnyOutcome, TheEnumerator, FALSE)} :
         IF r0.oob
         THEN \E u \in Outcomes :
                \E r \in {next(set, ndebug, u, TheEnumerator, FALSE)} : NextLeaves(r)
         ELSE NextLeaves(r0)
    /\ UNCHANGED <<obj, set, machineVars, counterVars, generatorVars, lexorVars>>

---------------------------------------------------------------------------
(* Lexor's operations *)

\* lexor.setM(m).
LexSetM(m) ==
    /\ obj = "Lexor"
    /\ Running
    /\ lex_m' = m
    /\ lexRet' = [st |-> "ok", op |-> "setM", val |-> << >>, i |-> 0, oob |-> FALSE]
    /\ UNCHANGED lexCounts
    /\ UNCHANGED <<obj, set, machineVars, counterVars, generatorVars, enumeratorVars>>

GetLeaves(i, m, r) ==
    /\ lex_m' = m
    /\ lexCounts' = r.memo
    /\ lexRet' = [st |-> r.st, op |-> "get", val |-> r.r, i |-> i, oob |-> r.oob]

\* get(i) with _m = m.
GetWith(i, m) ==
    \E r0 \in {lexGet(set, ndebug, AnyOutcome, m, i, lexCounts)} :
      IF r0.oob
      THEN \E u \in Outcomes :
             \E r \in {lexGet(set, ndebug, u, m, i, lexCounts)} : GetLeaves(i, m, r)
      ELSE GetLeaves(i, m, r0)

\* lexor.get(i).
LexGet(i) ==
    /\ obj = "Lexor"
    /\ Running
    /\ GetWith(i, lex_m)
    /\ UNCHANGED <<obj, set, machineVars, counterVars, generatorVars, enumeratorVars>>

\* lexor.get(i, m): sets _m, then get(i).
LexGetM(i, m) ==
    /\ obj = "Lexor"
    /\ Running
    /\ GetWith(i, m)
    /\ UNCHANGED <<obj, set, machineVars, counterVars, generatorVars, enumeratorVars>>

---------------------------------------------------------------------------
(* Specifications *)

SizeT == 0..(Word - 1)

NextCounter == \E n \in 0..MaxCountN, m \in 0..(MaxCountN + 1) : Count(n, m)

NextGenerator == \E m \in 0..MaxM : Generate(m)

NextEnumerator ==
    \/ \E m \in 0..MaxM : EnumFirst(m)
    \/ EnumNext

NextLexor ==
    \/ \E m \in 0..MaxM : LexSetM(m)
    \/ \E i \in SizeT : LexGet(i)
    \/ \E i \in SizeT, m \in 0..MaxM : LexGetM(i, m)

Next ==
    \/ NextCounter
    \/ NextGenerator
    \/ NextEnumerator
    \/ NextLexor

\* Every object.
Spec == Init /\ [][Next]_vars

\* One object each.
InitCounter == Init /\ obj = "Counter"
InitGenerator == Init /\ obj = "Generator"
InitEnumerator == Init /\ obj = "Enumerator"
InitLexor == Init /\ obj = "Lexor"

SpecCounter == InitCounter /\ [][NextCounter]_vars
SpecGenerator == InitGenerator /\ [][NextGenerator]_vars
SpecEnumerator == InitEnumerator /\ [][NextEnumerator]_vars
SpecLexor == InitLexor /\ [][NextLexor]_vars

---------------------------------------------------------------------------
(* Reference definitions for the properties *)

RECURSIVE Factorial(_)
Factorial(k) == IF k = 0 THEN 1 ELSE k * Factorial(k - 1)

\* The binomial coefficient in closed form, 0 for m > n.
Binomial(n, m) ==
    IF m > n THEN 0 ELSE Factorial(n) \div (Factorial(m) * Factorial(n - m))

Representable(n, m) == Binomial(n, m) < Word

\* The arguments the observed Counter is called with, m <= n.
CountArgs == {nm \in (0..MaxCountN) \X (0..MaxCountN) : nm[2] <= nm[1]}

\* The m-element sets of positions of a sequence of length n, each as the
\* tuple of its positions in increasing order.
RECURSIVE Increasing(_)
Increasing(S) ==
    IF S = {} THEN << >>
    ELSE LET least == CHOOSE x \in S : \A y \in S : x <= y
         IN <<least>> \o Increasing(S \ {least})

IndexTuples(n, m) ==
    {Increasing(S) : S \in {S \in SUBSET (0..(n - 1)) : Cardinality(S) = m}}

\* Lexicographic order on tuples of one length.
LexLess(a, b) ==
    \E j \in 1..Len(a) : a[j] < b[j] /\ \A k \in 1..(j - 1) : a[k] = b[k]

\* The index tuples in lexicographic order.
LexOrdered(n, m) ==
    LET T == IndexTuples(n, m)
        rank == [t \in T |-> Cardinality({x \in T : LexLess(x, t)})]
    IN [k \in 1..Cardinality(T) |-> CHOOSE t \in T : rank[t] = k - 1]

\* The combinations of the base sequence s the index tuples stand for.
Expected(s, m) ==
    LET tuples == LexOrdered(Len(s), m)
    IN [k \in DOMAIN tuples |-> [j \in 1..m |-> s[tuples[k][j] + 1]]]

\* The outcome st of a call on n elements is a return, or the end of the
\* process on a stack too small for the call: the recursions of countRec,
\* generateRec and the private get are at most n + 1 frames deep.
ReturnsUnlessStackShort(st, n) == st = "ok" \/ (st = "crash" /\ stack <= n)

---------------------------------------------------------------------------
(* Properties of the Counter *)

\* C4: whatever calls were made before on the Counter (whatever its memo
\* holds), count(n, m) with 0 <= m <= n and a representable binomial
\* coefficient throws nothing and what it returns is exactly that
\* coefficient, and count(n, n-m) returns the same; so has the last call.
\* The one other outcome is the end of the process in a recursion deeper
\* than the call stack, which needs a stack of fewer than n frames.
C4_CountIsBinomial ==
    /\ \A nm \in CountArgs :
         Representable(nm[1], nm[2]) =>
           LET r == count(nm[1], nm[2], counts)
               q == count(nm[1], nm[1] - nm[2], counts)
           IN /\ ReturnsUnlessStackShort(r.st, nm[1] - 1)
              /\ r.st = "ok" => r.val = Binomial(nm[1], nm[2])
              /\ q.st = r.st
              /\ q.val = r.val
    /\ (cntRet.st # "none" /\ cntRet.m <= cntRet.n
          /\ Representable(cntRet.n, cntRet.m))
         => /\ ReturnsUnlessStackShort(cntRet.st, cntRet.n - 1)
            /\ cntRet.st = "ok" => cntRet.val = Binomial(cntRet.n, cntRet.m)

\* count(4, 2) has returned 6 on a Counter whose memo holds the entry of an
\* earlier call, count(6, 2).
C4_Witness ==
    /\ cntRet.st = "ok" /\ cntRet.n = 4 /\ cntRet.m = 2 /\ cntRet.val = 6
    /\ HasKey(counts, 6, 2)

\* The outcome st of count(n, m), 0 <= m <= n: the overflow error when the
\* coefficient is not representable, a return when it is, or the end of
\* the process on a stack of fewer than n frames.
OverflowIffUnrepresentable(st, n, m) ==
    \/ st = "crash" /\ stack < n
    \/ st = "overflow" /\ ~Representable(n, m)
    \/ st = "ok" /\ Representable(n, m)

\* C5: with 0 <= m <= n, a count(n, m) that the call stack lets complete
\* throws the overflow error exactly when the binomial coefficient is
\* >= 2^W, and a value it returns is the true coefficient, never a wrapped
\* one; the test cnt < (cnt0 | cnt1) on cnt = cnt0 + cnt1 mod 2^W is true
\* exactly when cnt0 + cnt1 >= 2^W.
C5_OverflowDetected ==
    /\ \A nm \in CountArgs :
         LET r == count(nm[1], nm[2], counts) IN
         /\ OverflowIffUnrepresentable(r.st, nm[1], nm[2])
         /\ r.st = "ok" => r.val = Binomial(nm[1], nm[2])
    /\ (cntRet.st # "none" /\ cntRet.m <= cntRet.n) =>
         /\ OverflowIffUnrepresentable(cntRet.st, cntRet.n, cntRet.m)
         /\ cntRet.st = "ok" => cntRet.val = Binomial(cntRet.n, cntRet.m)
    /\ \A cnt0 \in SizeT, cnt1 \in SizeT :
         Overflowed(Add(cnt0, cnt1), cnt0, cnt1) <=> cnt0 + cnt1 >= Word

\* count(n, m) with m <= n has thrown the overflow error, after sub-counts
\* were stored in the memo.
C5_Witness ==
    /\ cntRet.st = "overflow" /\ cntRet.m <= cntRet.n
    /\ counts # EmptyMemo

\* Every entry of the memo has a normalized key and the true coefficient.
MemoSound(memo) ==
    \A k \in DOMAIN memo :
       /\ 2 <= k[2]
       /\ k[2] <= k[1] - k[2]
       /\ memo[k] = Binomial(k[1], k[2])

\* count(n, n-m) after a count(n, m) that returned adds no entry.
MemoShared(memo) ==
    \A nm \in CountArgs :
       LET r == count(nm[1], nm[2], memo) IN
       r.st = "ok" => count(nm[1], nm[1] - nm[2], r.memo).memo = r.memo

\* C13: after any calls of count(n, m), those that threw the overflow error
\* included, every memo entry has a key (n, m) with 2 <= m <= n-m and holds
\* the true C(n, m); count(n, m) and count(n, n-m) use one entry; and a
\* call removes or changes no entry the memo held.
C13_MemoGrowsSound ==
    /\ [](cntRet.st \notin Dead => (MemoSound(counts) /\ MemoShared(counts)))
    /\ [][\A k \in DOMAIN counts :
            k \in DOMAIN counts' /\ counts'[k] = counts[k]]_vars

\* count(6, 4) has returned 15 on a memo that holds the entry of (6, 2),
\* none of (6, 4), and the entries of the sub-counts (5, 2) and (4, 2).
C13_Witness ==
    /\ cntRet.st = "ok" /\ cntRet.n = 6 /\ cntRet.m = 4 /\ cntRet.val = 15
    /\ HasKey(counts, 6, 2) /\ ~HasKey(counts, 6, 4)
    /\ HasKey(counts, 5, 2) /\ HasKey(counts, 4, 2)

\* C12 as claimed: count(n, m) with m > n returns 0.
C12_CountBeyondNIsZero ==
    (cntRet.st # "none" /\ cntRet.m > cntRet.n) =>
       /\ cntRet.st = "ok"
       /\ cntRet.val = 0

---------------------------------------------------------------------------
(* Properties of the Generator *)

\* C1: when generate(m) with 0 <= m <= n has returned, whatever the
\* Generator held before, _combinations is exactly the combinations of all
\* strictly increasing m-tuples of positions, each once, in lexicographic
\* order of the tuples; its size is C(n, m); for m = 0 it is the one empty
\* combination.
C1_GenerateAllInOrder ==
    (genRet.st = "ok" /\ genRet.m <= Len(set)) =>
       /\ gen_m = genRet.m
       /\ combinations = Expected(set, genRet.m)
       /\ Len(combinations) = Binomial(Len(set), genRet.m)
       /\ genRet.m = 0 => combinations = << << >> >>

\* generate(2) has returned on a 4-element base sequence, on a Generator
\* that held the result of an earlier generate().
C1_Witness ==
    /\ genRet.st = "ok" /\ genRet.m = 2 /\ set = Odds(4)
    /\ genRet.before > 0
    /\ Len(combinations) = 6

\* C19: a generate(m) that ends with the overflow error leaves
\* _combinations empty, whatever an earlier generate() had put there, and
\* leaves _m at the value it had before the call.
C19_OverflowLeavesEmpty ==
    [][genRet'.st = "overflow" =>
         (combinations' = << >> /\ gen_m' = gen_m)]_vars

\* generate(m) has ended with the overflow error on a Generator that held
\* the 6 combinations of an earlier generate(5); _m is still 5.
C19_Witness ==
    /\ genRet.st = "overflow"
    /\ genRet.before = 6
    /\ gen_m = 5 /\ genRet.m # 5
    /\ combinations = << >>

\* C10 as claimed: generate(m) with m > n completes without error, leaves
\* an empty _combinations and reads no position >= n.
C10_GenerateBeyondNIsEmpty ==
    (genRet.st # "none" /\ genRet.m > Len(set)) =>
       /\ genRet.st = "ok"
       /\ combinations = << >>
       /\ ~genRet.oob

---------------------------------------------------------------------------
(* Properties of the Enumerator *)

\* Whether an empty sequence has been returned since the last first().
Ended(out) == \E k \in 1..Len(out) : IsEmpty(out[k])

\* The values returned before the first empty one: those a caller that
\* stops at the first empty result has taken.
BeforeFirstEmpty(out) ==
    LET stop == IF Ended(out)
                THEN CHOOSE k \in 1..Len(out) :
                       /\ IsEmpty(out[k])
                       /\ \A j \in 1..(k - 1) : ~IsEmpty(out[j])
                ELSE Len(out) + 1
    IN SubSeq(out, 1, stop - 1)

\* What generator.generate(m) can do on a new Generator over s: the outcome
\* and the combinations of the call, under each outcome of an out-of-bounds
\* read.
Generated(s, m) ==
    {[st |-> r.st, combs |-> r.combs] :
       r \in {generate(s, << >>, 0, 0, m, ndebug, u) : u \in Outcomes}}

\* The outcome of a call of first() or next() with the result r: a call
\* that read a position out of bounds has no one result.
CallOutcome(r) == IF r.st = "ok" /\ r.oob THEN "ub" ELSE r.st

\* The values that k calls of next() return on the object e, up to the
\* first call that does not return (st is its outcome).
RECURSIVE NextValues(_, _, _)
NextValues(s, e, k) ==
    IF k = 0 THEN [st |-> "ok", vals |-> << >>]
    ELSE LET r == next(s, ndebug, AnyOutcome, e, FALSE) IN
         IF CallOutcome(r) # "ok" THEN [st |-> CallOutcome(r), vals |-> << >>]
         ELSE LET rest == NextValues(s, r.e, k - 1)
              IN [st |-> rest.st, vals |-> <<r.val>> \o rest.vals]

\* The values that first(m) and then k-1 calls of next() return on the
\* object e.
FirstNextValues(s, e, m, k) ==
    LET r == first(s, ndebug, AnyOutcome, e, m) IN
    IF CallOutcome(r) # "ok" THEN [st |-> CallOutcome(r), vals |-> << >>]
    ELSE LET rest == NextValues(s, r.e, k - 1)
         IN [st |-> rest.st, vals |-> <<r.val>> \o rest.vals]

\* C2: for 1 <= m <= n, the values first(m) and the following next() calls
\* return before the first empty one are, in order, the combinations a
\* generate(m) that returns produces: a prefix of them while the
\* enumeration runs, all of them once the empty sequence has been returned.
\* They are the combinations of the index tuples in lexicographic order,
\* also where generate(m) throws.
C2_EnumeratorIsGenerator ==
    (enumRet.started /\ 1 <= enum_m /\ enum_m <= Len(set)) =>
      /\ enumRet.st = "ok"
      /\ LET res == BeforeFirstEmpty(enumOut)
             all == Expected(set, enum_m)
         IN /\ Len(res) <= Len(all)
            /\ res = SubSeq(all, 1, Len(res))
            /\ Ended(enumOut) => res = all
      /\ \A g \in Generated(set, enum_m) :
           g.st = "ok" =>
             LET res == BeforeFirstEmpty(enumOut)
             IN /\ Len(res) <= Len(g.combs)
                /\ res = SubSeq(g.combs, 1, Len(res))
                /\ Ended(enumOut) => res = g.combs

\* first(2) and next() have run on a 4-element base sequence until the empty
\* sequence was returned, after 6 combinations.
C2_Witness ==
    /\ enumRet.started /\ enum_m = 2 /\ set = Odds(4)
    /\ Ended(enumOut)
    /\ Len(BeforeFirstEmpty(enumOut)) = 6
    /\ \E g \in Generated(set, enum_m) : g.st = "ok"

\* C6 as claimed: for 0 <= m <= n, m = 0 included, the loop of the test
\* bench counts Counter.count(n, m) results before the first empty one.
C6_LoopCountsAll ==
    (enumRet.started /\ enum_m <= Len(set) /\ Ended(enumOut)
       /\ FreshCount(Len(set), enum_m).st = "ok") =>
      Len(BeforeFirstEmpty(enumOut)) = FreshCount(Len(set), enum_m).val

\* C7: once next() has returned through its exit for the exhausted
\* traversal, a further next() returns the empty sequence through that exit
\* again and leaves _idxStack, _curSet, _stateStack and _m as they were.
C7_ExhaustedStays ==
    [][(enumRet.started /\ enum_m <= Len(set) /\ enumRet.st = "ok"
          /\ enumRet.via = "exhausted" /\ EnumNext)
        => (/\ enumRet'.st = "ok"
            /\ enumRet'.via = "exhausted"
            /\ IsEmpty(enumRet'.val)
            /\ UNCHANGED <<enum_m, curSet, idxStack, stateStack>>)]_vars

\* On a 4-element base sequence first(2) and next() have returned the 6
\* combinations and then the empty sequence three times.
C7_Witness ==
    /\ enumRet.started /\ enum_m = 2 /\ set = Iota(4)
    /\ enumRet.via = "exhausted"
    /\ Len(enumOut) = 9
    /\ NumEmpty(enumOut) = 3

\* C8: whatever was called on the Enumerator before first(m), 0 <= m <= n,
\* first(m) and the calls of next() after it return what the same calls
\* return on a newly constructed Enumerator.
C8_FirstRestarts ==
    (enumRet.started /\ enum_m <= Len(set)) =>
      /\ enumRet.st = "ok"
      /\ FirstNextValues(set, NewEnumerator, enum_m, Len(enumOut)) =
           [st |-> "ok", vals |-> enumOut]

\* first(2) was called on a 4-element base sequence with a traversal in
\* progress, and the enumeration has run to its end since.
C8_Witness ==
    /\ enumRet.started /\ enumRet.midway /\ enum_m = 2 /\ set = Odds(4)
    /\ Len(enumOut) = 7
    /\ Ended(enumOut)

\* Whether next() on the object e returns within k rounds of its loop: a
\* call that ends the process, fails an assert or reads out of bounds does
\* not return.
RECURSIVE ReturnsWithin(_, _, _)
ReturnsWithin(s, e, k) ==
    IF Len(e.idxStack) = 0 THEN nextExit(ndebug, e, FALSE).st = "ok"
    ELSE IF k = 0 THEN FALSE
    ELSE \E round \in {nextRound(s, ndebug, AnyOutcome, e, FALSE)} :
           /\ CallOutcome(round.res) = "ok"
           /\ round.ret \/ ReturnsWithin(s, round.res.e, k - 1)

\* Rounds of the loop of next() that a call takes at most.
RoundsBound(s) == 2 * Len(s) + 3

\* Whether one of the next k calls of next() on the object e returns
\* through the exit for the exhausted traversal, the calls before it
\* returning too.
RECURSIVE ExhaustsWithin(_, _, _)
ExhaustsWithin(s, e, k) ==
    IF k = 0 THEN FALSE
    ELSE \E r \in {next(s, ndebug, AnyOutcome, e, FALSE)} :
           /\ CallOutcome(r) = "ok"
           /\ r.via = "exhausted" \/ ExhaustsWithin(s, r.e, k - 1)

\* C15: with 0 <= m <= n, every call of next(), the one inside first(m)
\* included, returns within a bounded number of rounds of its loop; after
\* first(m), in every state, at most C(n, m) + 1 further calls of next()
\* lead to a return through the exit for the exhausted traversal; and from
\* the call number C(n, m) + 2 on, the calls made have returned through it.
C15_NextTerminates ==
    /\ \A m \in 0..Len(set) :
         ReturnsWithin(set, firstReset(set, TheEnumerator, m), RoundsBound(set))
    /\ (enumRet.started /\ enum_m <= Len(set)) =>
         /\ enumRet.st = "ok"
         /\ ReturnsWithin(set, TheEnumerator, RoundsBound(set))
         /\ ExhaustsWithin(set, TheEnumerator, Binomial(Len(set), enum_m) + 1)
         /\ Len(enumOut) >= Binomial(Len(set), enum_m) + 2
               => enumRet.via = "exhausted"

\* On a 5-element base sequence first(3) and 10 calls of next() have run:
\* the last one returned through the exit for the exhausted traversal.
C15_Witness ==
    /\ enumRet.started /\ enum_m = 3 /\ Len(set) = 5
    /\ enumRet.via = "exhausted"
    /\ Len(enumOut) = 11

\* The index stack of e holds the positions 0, 1, ..., k in this order, with
\* k <= n, and _stateStack has its n+1 entries.
StackOk(s, e) ==
    /\ Len(e.idxStack) <= Len(s) + 1
    /\ \A j \in 1..Len(e.idxStack) : e.idxStack[j] = j - 1
    /\ Len(e.stateStack) = Len(s) + 1

\* At the head of a round of next() (lines 244-247): a position visited in
\* state 0 with the partial combination short of _m is a position of the
\* base sequence, with room left to fill the combination.
VisitOk(s, e) ==
    LET curIdx == Back(e.idxStack) IN
    (e.stateStack[curIdx + 1] = 0 /\ Len(e.curSet) < e.m) =>
       /\ curIdx < Len(s)
       /\ curIdx + (e.m - Len(e.curSet)) <= Len(s)

\* StackOk and VisitOk hold in every state the loop of next() goes through
\* on the object e, which returns within k rounds without reading a
\* position >= n.
RECURSIVE RoundsSafe(_, _, _)
RoundsSafe(s, e, k) ==
    /\ StackOk(s, e)
    /\ \/ Len(e.idxStack) = 0
       \/ /\ k > 0
          /\ VisitOk(s, e)
          /\ \E round \in {nextRound(s, ndebug, AnyOutcome, e, FALSE)} :
               /\ round.res.st = "ok"
               /\ ~round.res.oob
               /\ IF round.ret THEN StackOk(s, round.res.e)
                  ELSE RoundsSafe(s, round.res.e, k - 1)

\* C17: with 0 <= m <= n, in every state between the calls and in every
\* state a call of first(m) or next() goes through, _idxStack holds exactly
\* the positions 0, 1, ..., k with k <= n, every read _set[curIdx] has
\* curIdx < n, and a position p visited in state 0 with the partial
\* combination short of m has p + (m - |partial combination|) <= n.
C17_EnumeratorStaysInBounds ==
    /\ \A m \in 0..Len(set) :
         RoundsSafe(set, firstReset(set, TheEnumerator, m), RoundsBound(set))
    /\ (enumRet.started /\ enum_m <= Len(set)) =>
         /\ enumRet.st = "ok"
         /\ ~enumRet.oob
         /\ RoundsSafe(set, TheEnumerator, RoundsBound(set))

\* first(4) on a 4-element base sequence has returned the one combination:
\* the call went through the index stack 0, 1, 2, 3, 4 and left 0, 1, 2, 3.
C17_Witness ==
    /\ enumRet.started /\ enum_m = 4 /\ set = Odds(4)
    /\ enumRet.via = "yield"
    /\ idxStack = <<0, 1, 2, 3>>
    /\ curSet = set

\* The positions on the index stack.
Stacked == {idxStack[j] : j \in 1..Len(idxStack)}

\* C18: with 0 <= m <= n, in every state between the calls each entry of
\* _stateStack is 0, 1 or 2; a position not on _idxStack has visit state 0;
\* the size of _curSet is the number of stacked positions in visit state 1
\* and at most m; with _idxStack empty, _curSet is empty and every visit
\* state is 0; and no assert of next() fails, in the call made nor in the
\* next one, whether the build evaluates the asserts or not.
C18_VisitStates ==
    (enumRet.started /\ enum_m <= Len(set)) =>
      /\ enumRet.st = "ok"
      /\ \A p \in 0..(Len(stateStack) - 1) :
           /\ stateStack[p + 1] \in {0, 1, 2}
           /\ p \notin Stacked => stateStack[p + 1] = 0
      /\ Len(curSet) = Cardinality({p \in Stacked : stateStack[p + 1] = 1})
      /\ Len(curSet) <= enum_m
      /\ Len(idxStack) = 0 => Len(curSet) = 0
      /\ next(set, FALSE, AnyOutcome, TheEnumerator, FALSE).st = "ok"

\* On a 4-element base sequence with m = 2 the combination of the positions
\* 1 and 2 has been returned: position 0 is in visit state 2, the positions
\* 1 and 2 in visit state 1.
C18_Witness ==
    /\ enumRet.started /\ enum_m = 2 /\ set = Iota(4)
    /\ enumRet.val = <<1, 2>>
    /\ idxStack = <<0, 1, 2>>
    /\ stateStack = <<2, 1, 1, 0, 0>>

\* C11 as claimed: with m > n, first(m) and every next() after it return
\* the empty sequence without error, read no position >= n of the base
\* sequence and access no entry outside _stateStack.
C11_EnumBeyondNIsEmpty ==
    (enumRet.started /\ enum_m > Len(set)) =>
       /\ enumRet.st = "ok"
       /\ IsEmpty(enumRet.val)
       /\ ~enumRet.oob

---------------------------------------------------------------------------
(* Properties of the Lexor *)

\* C3: for 0 <= m <= n, C(n, m) representable, and a rank i < C(n, m),
\* what get(i) returns is the combination at position i (counted from 0)
\* of what a generate(m) that returns produces over the same base sequence,
\* the combination of the i-th index tuple in lexicographic order.  get(i)
\* throws nothing; its one other outcome is the end of the process on a
\* stack of no more than n frames.
C3_GetIsGenerated ==
    (lexRet.op = "get" /\ lex_m <= Len(set)
       /\ Representable(Len(set), lex_m)
       /\ lexRet.i < Binomial(Len(set), lex_m)) =>
      /\ ReturnsUnlessStackShort(lexRet.st, Len(set))
      /\ lexRet.st = "ok" =>
           /\ lexRet.val = Expected(set, lex_m)[lexRet.i + 1]
           /\ \A g \in Generated(set, lex_m) :
                g.st = "ok" =>
                  /\ lexRet.i + 1 \in DOMAIN g.combs
                  /\ lexRet.val = g.combs[lexRet.i + 1]

\* get(3) with m = 2 has returned the positions 1 and 2 of a 4-element base
\* sequence, on a Lexor whose memo holds entries of earlier calls.
C3_Witness ==
    /\ lexRet.op = "get" /\ lexRet.st = "ok"
    /\ set = Odds(4) /\ lex_m = 2 /\ lexRet.i = 3
    /\ lexRet.val = <<5, 3>>
    /\ HasKey(lexCounts, 4, 2)
    /\ \E g \in Generated(set, lex_m) : g.st = "ok"

\* C9: for 0 <= m <= n and a rank i >= C(n, m), get(i) raises no error and
\* what it returns is the empty sequence; its one other outcome is the end
\* of the process on a stack of no more than n frames.
C9_GetOutOfRangeIsEmpty ==
    (lexRet.op = "get" /\ lex_m <= Len(set)
       /\ lexRet.i >= Binomial(Len(set), lex_m)) =>
      /\ ReturnsUnlessStackShort(lexRet.st, Len(set))
      /\ IsEmpty(lexRet.val)

\* get(6) with m = 2 on a 4-element base sequence, one past the last rank.
C9_Witness ==
    /\ lexRet.op = "get" /\ lexRet.st = "ok"
    /\ Len(set) = 4 /\ lex_m = 2
    /\ lexRet.i = Binomial(4, 2)
    /\ IsEmpty(lexRet.val)

\* get(i) with _m = m in a build that evaluates the asserts, over the
\* positions 0 .. n-1 as base sequence: the result is the positions taken.
AssertedGet(n, m, i) == lexGet(Iota(n), FALSE, AnyOutcome, m, i, EmptyMemo)

StrictlyIncreasing(r) == \A j \in 1..(Len(r) - 1) : r[j] < r[j + 1]

\* C16: for 0 <= m <= n and i < C(n, m), the recursion of get(i) passes
\* both asserts at every step with remaining size > 0 (nel < _n, and
\* i < count(n, m), which a remaining size above the remaining length
\* fails), whether the build evaluates them or not; it reads no position
\* >= n, and a recursion that comes to its end has appended exactly m
\* elements, taken at strictly increasing positions.  No assert fails
\* either in a recursion that the call stack cuts short.
C16_GetAssertsHold ==
    (lexRet.op = "get" /\ lex_m <= Len(set)
       /\ Representable(Len(set), lex_m)
       /\ lexRet.i < Binomial(Len(set), lex_m)) =>
      LET a == AssertedGet(Len(set), lex_m, lexRet.i) IN
      /\ ReturnsUnlessStackShort(a.st, Len(set))
      /\ ~a.oob
      /\ a.st = "ok" =>
           /\ Len(a.r) = lex_m
           /\ StrictlyIncreasing(a.r)
           /\ \A j \in 1..Len(a.r) : a.r[j] < Len(set)
      /\ ReturnsUnlessStackShort(lexRet.st, Len(set))
      /\ ~lexRet.oob
      /\ (a.st = "ok" /\ lexRet.st = "ok") =>
           lexRet.val = [j \in 1..lex_m |-> set[a.r[j] + 1]]

\* get(9) with m = 3, the last rank, has returned the positions 2, 3, 4 of
\* a 5-element base sequence in a build that does not evaluate the asserts.
C16_Witness ==
    /\ lexRet.op = "get" /\ lexRet.st = "ok" /\ ndebug
    /\ set = Iota(5) /\ lex_m = 3 /\ lexRet.i = 9
    /\ lexRet.val = <<2, 3, 4>>

---------------------------------------------------------------------------
(* Properties of the objects that call the Counter *)

\* The pairs (k, j) a count on n elements can store in the memo: the
\* normalised sizes j >= 2 of the sequences of k <= n elements.
MemoPairs(n) == {p \in (0..n) \X (0..n) : 2 <= p[2] /\ 2 * p[2] <= p[1]}

\* The bytes with which a count on n elements can always end with the
\* overflow error: the Counter's buckets, a node for every pair it can
\* store, and the message of the error.
CountRoom(n) == BucketBytes + Cardinality(MemoPairs(n)) * NodeBytes
                + OverflowMessageBytes

=============================================================================
